---- MODULE Spec2Model ----
(***************************************************************************)
(* Model of OPLauncher.Hook.Native/dllmain.cpp: two code patches in the    *)
(* host process (target A = Client::IsAlreadyRunning, target B =          *)
(* CLBlockAllocator::OpenDataFile), installed by the export HookStartup    *)
(* and removed by RemoveAllHooks when the DLL is unloaded.                 *)
(*                                                                         *)
(* A DWORD is a pair <<hi, lo>> of 16-bit halves, so that 32-bit           *)
(* wrap-around arithmetic is exact.  A byte is a number in 0..255.  A      *)
(* memory window is a sequence of bytes; C offset i is index i + 1.        *)
(***************************************************************************)
EXTENDS Integers, Sequences, FiniteSets, TLC

(***************************************************************************)
(* Bounds of the model.                                                    *)
(***************************************************************************)
\* number of calls (HookStartup / DllMain) made by the host in one run
MaxCalls == 4
\* number of distinct base addresses VirtualAlloc can hand out
NumBlocks == 3

(***************************************************************************)
(* 32-bit unsigned arithmetic on <<hi, lo>> pairs.                         *)
(***************************************************************************)
DW(hi, lo) == <<hi, lo>>

Half == 65536

\* (DWORD)a + n, for a small non-negative n
Add32(a, b) ==
    LET lo == a[2] + b[2]
        hi == a[1] + b[1] + (IF lo >= Half THEN 1 ELSE 0)
    IN  DW(hi % Half, lo % Half)

\* (DWORD)a - (DWORD)b
Sub32(a, b) ==
    LET lo == a[2] - b[2]
        hi == a[1] - b[1] - (IF lo < 0 THEN 1 ELSE 0)
    IN  DW(hi % Half, lo % Half)

\* memcpy(dst, &dword, 4): the four bytes of a DWORD, little-endian (x86)
DwordBytes(d) == << d[2] % 256, d[2] \div 256, d[1] % 256, d[1] \div 256 >>

\* the DWORD a CPU reads from four little-endian bytes
BytesDword(b) == DW(b[3] + 256 * b[4], b[1] + 256 * b[2])

Five == DW(0, 5)

(***************************************************************************)
(* Program constants.                                                      *)
(***************************************************************************)
\* 0x004122A0
CLIENT_ISALREADYRUNNING_ADDR == DW(65, 8864)
\* 0x00675920
CLBLOCKALLOCATOR_OPENDATAFILE_ADDR == DW(103, 22816)
NULL == DW(0, 0)
MutexWindow == 16
FileWindow == 32
TrampolineSize == 32
PAGE_EXECUTE_READ == 32
PAGE_EXECUTE_READWRITE == 64
\* 0xE9, opcode of JMP rel32
JMP == 233
\* xor eax, eax ; ret
patchBytes == << 49, 192, 195 >>

(***************************************************************************)
(* Byte-sequence helpers (memcpy).                                         *)
(***************************************************************************)
\* memcpy(dst + off, src, n): dst with src[1..n] written at C offset off
Memcpy(dst, off, src, n) ==
    [i \in 1..Len(dst) |-> IF i > off /\ i <= off + n THEN src[i - off] ELSE dst[i]]

Prefix(s, n) == SubSeq(s, 1, n)

Zeros(n) == [i \in 1..n |-> 0]

(***************************************************************************)
(* The environment: contents of the host's code, where the loader put      *)
(* the DLL, and which base addresses VirtualAlloc may return.              *)
(***************************************************************************)
\* two candidate builds of the host: the bytes of A's window and of B's window
HostImages ==
    { [ A |-> << 85, 139, 236, 131, 236, 8, 86, 87, 139, 241, 51, 255, 137, 125, 252, 195 >>,
        B |-> << 85, 139, 236, 106, 255, 104, 48, 89, 103, 0, 100, 161, 0, 0, 0, 0,
                 80, 131, 236, 24, 83, 86, 87, 139, 241, 51, 219, 137, 93, 252, 144, 195 >> ],
      [ A |-> << 106, 255, 104, 16, 32, 65, 0, 100, 161, 0, 0, 0, 0, 80, 144, 195 >>,
        B |-> << 131, 236, 16, 83, 86, 139, 241, 87, 51, 255, 137, 125, 240, 137, 125, 244,
                 137, 125, 248, 137, 125, 252, 139, 70, 4, 133, 192, 116, 5, 144, 144, 195 >> ] }

\* protection of the host's code section when the DLL is loaded
CodeProtections == { PAGE_EXECUTE_READ, PAGE_EXECUTE_READWRITE }

\* addresses the loader may give OpenDataFile_Hook: below and above target B
HookFnChoices == { DW(16, 4096), DW(4096, 4128) }

\* base addresses VirtualAlloc may return (64K allocation granularity):
\* 0x00660000 and 0x00670000 lie below target B, 0x00680000 above it
BlockAddrs == { DW(102 + i, 0) : i \in 0..(NumBlocks - 1) }


(***************************************************************************)
(* State.                                                                  *)
(***************************************************************************)
VARIABLES
    memA,                    \* the 16 bytes at CLIENT_ISALREADYRUNNING_ADDR
    memB,                    \* the 32 bytes at CLBLOCKALLOCATOR_OPENDATAFILE_ADDR
    prot,                    \* page protection of the two target regions
    heap,                    \* blocks VirtualAlloc has handed out: base -> bytes
    g_mutexOriginalBytes,
    g_fileOriginalBytes,
    g_hooksInstalled,
    g_fileHookTrampoline,
    g_originalOpenDataFile,
    origA,                   \* contents of A's window in the unpatched host
    origB,                   \* contents of B's window in the unpatched host
    hookFn,                  \* (DWORD)OpenDataFile_Hook
    calls,                   \* number of calls made so far
    lastCall,                \* the last call: function, argument, return value
    log,                     \* system calls and memory writes of the last call
    pre,                     \* the program state when the last call began
    prev,                    \* the call before the last one, and the install
                             \* flag when it began
    rel,                     \* operands and results of the offset computation
    thr                      \* the installing thread and a host thread, when
                             \* HookStartup is followed statement by statement

vars == << memA, memB, prot, heap, g_mutexOriginalBytes, g_fileOriginalBytes,
           g_hooksInstalled, g_fileHookTrampoline, g_originalOpenDataFile,
           origA, origB, hookFn, calls, lastCall, log, pre, prev, rel, thr >>

\* the part of the state the handlers read and write, as one record
Cur ==
    [ memA |-> memA, memB |-> memB, prot |-> prot, heap |-> heap,
      g_mutexOriginalBytes |-> g_mutexOriginalBytes,
      g_fileOriginalBytes |-> g_fileOriginalBytes,
      g_hooksInstalled |-> g_hooksInstalled,
      g_fileHookTrampoline |-> g_fileHookTrampoline,
      g_originalOpenDataFile |-> g_originalOpenDataFile,
      hookFn |-> hookFn, log |-> << >>, ret |-> TRUE ]

\* one entry of the log
Ev(op, region, addr, pr, ok) ==
    [ op |-> op, region |-> region, addr |-> addr, prot |-> pr, ok |-> ok ]

Logged(s, e) == [s EXCEPT !.log = Append(@, e)]

(***************************************************************************)
(* Win32 calls.                                                            *)
(***************************************************************************)
\* VirtualProtect(region, size, newProtect, &old): ok is what the system answers.
\* The calls that put back the protection the system reported for a region the
\* same handler has just made writable are taken to succeed.
VirtualProtect(s, region, newProtect, ok) ==
    LET t == Logged(s, Ev("VirtualProtect", region, NULL, newProtect, ok))
    IN  IF ok THEN [t EXCEPT !.prot[region] = newProtect] ELSE t

\* VirtualAlloc(NULL, 32, MEM_COMMIT | MEM_RESERVE, PAGE_EXECUTE_READWRITE):
\* addr is the base the system returns, NULL on failure; fresh pages are zero
VirtualAlloc(s, addr) ==
    LET t == Logged(s, Ev("VirtualAlloc", "-", addr, 0, addr # NULL))
    IN  IF addr = NULL THEN t
        ELSE [t EXCEPT !.heap = [a \in DOMAIN s.heap \cup {addr} |->
                                    IF a = addr THEN Zeros(TrampolineSize) ELSE s.heap[a]]]

\* VirtualFree(addr, 0, MEM_RELEASE)
VirtualFree(s, addr) ==
    LET t == Logged(s, Ev("VirtualFree", "-", addr, 0, addr \in DOMAIN s.heap))
    IN  [t EXCEPT !.heap = [a \in DOMAIN s.heap \ {addr} |-> s.heap[a]]]

\* what VirtualAlloc can answer in state s
AllocAnswers(s) == {NULL} \cup (BlockAddrs \ DOMAIN s.heap)

(***************************************************************************)
(* Relative jumps.                                                         *)
(***************************************************************************)
\* jumpOffset = ((DWORD)hookAddr + 5) - ((DWORD)trampolineJump + 5),
\* with trampolineJump = trampoline + 5
TrampolineJumpOffset(hookAddr, trampoline) ==
    Sub32(Add32(hookAddr, Five), Add32(Add32(trampoline, Five), Five))

\* the hook offset taken from the start of the jump instead of from its end
HookJumpOffset_FromJumpStart(hookAddr, hook) ==
    Sub32(hook, hookAddr)

\* hookOffset = ((DWORD)OpenDataFile_Hook) - ((DWORD)hookAddr + 5)
HookJumpOffset(hookAddr, hook) ==
    Sub32(hook, Add32(hookAddr, Five))

\* the five bytes of JMP rel32
JumpBytes(offset) == <<JMP>> \o DwordBytes(offset)

\* where a JMP rel32 placed at address at, holding bytes b, transfers control
JumpTarget(at, b) == Add32(Add32(at, Five), BytesDword(SubSeq(b, 2, 5)))

(***************************************************************************)
(* The handlers, as functions from the state at entry (and the system's    *)
(* answers e) to the state at return.  Field ret holds the return value.   *)
(***************************************************************************)
WriteTarget(s, region, bytes, n) ==
    LET t == Logged(s, Ev("write", region, NULL, 0, TRUE))
    IN  IF region = "A" THEN [t EXCEPT !.memA = Memcpy(@, 0, bytes, n)]
                        ELSE [t EXCEPT !.memB = Memcpy(@, 0, bytes, n)]

\* InstallMutexHook with the snapshot taken after the patch is written
InstallMutexHook_SnapshotAfterPatch(s, e) ==
    LET oldProtect == s.prot["A"]
        s1 == VirtualProtect(s, "A", PAGE_EXECUTE_READWRITE, e.protectA)
        s2 == WriteTarget(s1, "A", patchBytes, Len(patchBytes))
        s3 == Logged([s2 EXCEPT !.g_mutexOriginalBytes = s2.memA],
                     Ev("snapshot", "A", NULL, 0, TRUE))
        s4 == VirtualProtect(s3, "A", oldProtect, TRUE)
    IN  IF ~e.protectA THEN [s1 EXCEPT !.ret = FALSE]
        ELSE [s4 EXCEPT !.ret = TRUE]

\* InstallMutexHook padding the patch with NOPs (0x90) over the whole window
InstallMutexHook_PatchWholeWindow(s, e) ==
    LET oldProtect == s.prot["A"]
        s1 == VirtualProtect(s, "A", PAGE_EXECUTE_READWRITE, e.protectA)
        s2 == Logged([s1 EXCEPT !.g_mutexOriginalBytes = s1.memA],
                     Ev("snapshot", "A", NULL, 0, TRUE))
        s3 == WriteTarget(s2, "A",
                          patchBytes \o [i \in 1..(MutexWindow - 3) |-> 144],
                          MutexWindow)
        s4 == VirtualProtect(s3, "A", oldProtect, TRUE)
    IN  IF ~e.protectA THEN [s1 EXCEPT !.ret = FALSE]
        ELSE [s4 EXCEPT !.ret = TRUE]

InstallMutexHook(s, e) ==
    LET oldProtect == s.prot["A"]
        s1 == VirtualProtect(s, "A", PAGE_EXECUTE_READWRITE, e.protectA)
        \* memcpy(g_mutexOriginalBytes, hookAddr, 16)
        s2 == Logged([s1 EXCEPT !.g_mutexOriginalBytes = s1.memA],
                     Ev("snapshot", "A", NULL, 0, TRUE))
        \* memcpy(hookAddr, patchBytes, sizeof(patchBytes))
        s3 == WriteTarget(s2, "A", patchBytes, Len(patchBytes))
        s4 == VirtualProtect(s3, "A", oldProtect, TRUE)
    IN  IF ~e.protectA THEN [s1 EXCEPT !.ret = FALSE]
        ELSE [s4 EXCEPT !.ret = TRUE]

\* lines 105-112: the stub = first 5 bytes of the target + JMP back to target + 5
FillTrampoline(s, hookAddr) ==
    LET tr   == s.g_fileHookTrampoline
        b1   == Memcpy(s.heap[tr], 0, s.memB, 5)
        b2   == Memcpy(b1, 5, JumpBytes(TrampolineJumpOffset(hookAddr, tr)), 5)
    IN  Logged([s EXCEPT !.heap[tr] = b2], Ev("fill", "-", tr, 0, TRUE))

\* InstallFileHook returning on a failed VirtualProtect without releasing the block
InstallFileHook_NoFreeOnFailure(s, e) ==
    LET hookAddr == CLBLOCKALLOCATOR_OPENDATAFILE_ADDR
        oldProtect == s.prot["B"]
        s1 == [VirtualAlloc(s, e.alloc) EXCEPT !.g_fileHookTrampoline = e.alloc]
        s2 == VirtualProtect(s1, "B", PAGE_EXECUTE_READWRITE, e.protectB)
        s3 == Logged([s2 EXCEPT !.g_fileOriginalBytes = s2.memB],
                     Ev("snapshot", "B", NULL, 0, TRUE))
        s4 == FillTrampoline(s3, hookAddr)
        s5 == [s4 EXCEPT !.g_originalOpenDataFile = s4.g_fileHookTrampoline]
        s6 == WriteTarget(s5, "B", JumpBytes(HookJumpOffset(hookAddr, s5.hookFn)), 5)
        s7 == VirtualProtect(s6, "B", oldProtect, TRUE)
    IN  IF e.alloc = NULL THEN [s1 EXCEPT !.ret = FALSE]
        ELSE IF ~e.protectB THEN [s2 EXCEPT !.ret = FALSE]
        ELSE [s7 EXCEPT !.ret = TRUE]

InstallFileHook(s, e) ==
    LET hookAddr == CLBLOCKALLOCATOR_OPENDATAFILE_ADDR
        oldProtect == s.prot["B"]
        \* g_fileHookTrampoline = VirtualAlloc(...)
        s1 == [VirtualAlloc(s, e.alloc) EXCEPT !.g_fileHookTrampoline = e.alloc]
        s2 == VirtualProtect(s1, "B", PAGE_EXECUTE_READWRITE, e.protectB)
        \* failure path: VirtualFree(g_fileHookTrampoline); g_fileHookTrampoline = NULL
        f  == [VirtualFree(s2, s2.g_fileHookTrampoline) EXCEPT !.g_fileHookTrampoline = NULL]
        \* memcpy(g_fileOriginalBytes, hookAddr, 32)
        s3 == Logged([s2 EXCEPT !.g_fileOriginalBytes = s2.memB],
                     Ev("snapshot", "B", NULL, 0, TRUE))
        s4 == FillTrampoline(s3, hookAddr)
        \* g_originalOpenDataFile = g_fileHookTrampoline
        s5 == [s4 EXCEPT !.g_originalOpenDataFile = s4.g_fileHookTrampoline]
        \* memcpy(hookAddr, jumpToHook, 5)
        s6 == WriteTarget(s5, "B", JumpBytes(HookJumpOffset(hookAddr, s5.hookFn)), 5)
        s7 == VirtualProtect(s6, "B", oldProtect, TRUE)
    IN  IF e.alloc = NULL THEN [s1 EXCEPT !.ret = FALSE]
        ELSE IF ~e.protectB THEN [f EXCEPT !.ret = FALSE]
        ELSE [s7 EXCEPT !.ret = TRUE]

\* InstallAllHooks with the flag set before the second patch is attempted
InstallAllHooks_FlagBeforeFileHook(s, e) ==
    LET s1 == InstallMutexHook(s, e)
        s2 == InstallFileHook([s1 EXCEPT !.g_hooksInstalled = TRUE], e)
    IN  IF ~s1.ret THEN [s1 EXCEPT !.ret = FALSE]
        ELSE IF ~s2.ret THEN [s2 EXCEPT !.ret = FALSE]
        ELSE [s2 EXCEPT !.ret = TRUE]

\* InstallAllHooks attempting the second patch although the first one failed
InstallAllHooks_TriesFileHookAnyway(s, e) ==
    LET s1 == InstallMutexHook(s, e)
        s2 == InstallFileHook(s1, e)
    IN  IF ~s1.ret \/ ~s2.ret THEN [s2 EXCEPT !.ret = FALSE]
        ELSE [s2 EXCEPT !.g_hooksInstalled = TRUE, !.ret = TRUE]

InstallAllHooks(s, e) ==
    LET s1 == InstallMutexHook(s, e)
        s2 == InstallFileHook(s1, e)
    IN  IF ~s1.ret THEN [s1 EXCEPT !.ret = FALSE]
        ELSE IF ~s2.ret THEN [s2 EXCEPT !.ret = FALSE]
        ELSE [s2 EXCEPT !.g_hooksInstalled = TRUE, !.ret = TRUE]

\* RestoreTarget putting back a fixed PAGE_EXECUTE_READ instead of oldProtect
RestoreTarget_FixedProtection(s, region, saved, n, okProtect) ==
    LET s1 == VirtualProtect(s, region, PAGE_EXECUTE_READWRITE, okProtect)
        s2 == WriteTarget(s1, region, saved, n)
        s3 == VirtualProtect(s2, region, PAGE_EXECUTE_READ, TRUE)
    IN  IF okProtect THEN s3 ELSE s1

\* restore of one target in RemoveAllHooks (lines 161-166 and 169-174)
RestoreTarget(s, region, saved, n, okProtect) ==
    LET oldProtect == s.prot[region]
        s1 == VirtualProtect(s, region, PAGE_EXECUTE_READWRITE, okProtect)
        s2 == WriteTarget(s1, region, saved, n)
        s3 == VirtualProtect(s2, region, oldProtect, TRUE)
    IN  IF okProtect THEN s3 ELSE s1

\* RemoveAllHooks without the early return on !g_hooksInstalled
RemoveAllHooks_NoGuard(s, e) ==
    LET s1 == RestoreTarget(s, "A", s.g_mutexOriginalBytes, MutexWindow, e.protectA)
        s2 == RestoreTarget(s1, "B", s1.g_fileOriginalBytes, FileWindow, e.protectB)
        s3 == IF s2.g_fileHookTrampoline # NULL
              THEN [VirtualFree(s2, s2.g_fileHookTrampoline)
                        EXCEPT !.g_fileHookTrampoline = NULL]
              ELSE s2
    IN  [s3 EXCEPT !.g_hooksInstalled = FALSE]

\* RemoveAllHooks restoring the file hook before the mutex hook
RemoveAllHooks_FileFirst(s, e) ==
    LET s1 == RestoreTarget(s, "B", s.g_fileOriginalBytes, FileWindow, e.protectB)
        s2 == RestoreTarget(s1, "A", s1.g_mutexOriginalBytes, MutexWindow, e.protectA)
        s3 == IF s2.g_fileHookTrampoline # NULL
              THEN [VirtualFree(s2, s2.g_fileHookTrampoline)
                        EXCEPT !.g_fileHookTrampoline = NULL]
              ELSE s2
    IN  IF ~s.g_hooksInstalled THEN s
        ELSE [s3 EXCEPT !.g_hooksInstalled = FALSE]

RemoveAllHooks(s, e) ==
    LET s1 == RestoreTarget(s, "A", s.g_mutexOriginalBytes, MutexWindow, e.protectA)
        s2 == RestoreTarget(s1, "B", s1.g_fileOriginalBytes, FileWindow, e.protectB)
        s3 == IF s2.g_fileHookTrampoline # NULL
              THEN [VirtualFree(s2, s2.g_fileHookTrampoline)
                        EXCEPT !.g_fileHookTrampoline = NULL]
              ELSE s2
    IN  IF ~s.g_hooksInstalled THEN s
        ELSE [s3 EXCEPT !.g_hooksInstalled = FALSE]

DLL_PROCESS_DETACH == 0
DLL_PROCESS_ATTACH == 1

DllMain(s, ul_reason_for_call, e) ==
    LET s1 == IF ul_reason_for_call = DLL_PROCESS_DETACH THEN RemoveAllHooks(s, e)
              ELSE s
    IN  [s1 EXCEPT !.ret = TRUE]

\* returns 1 when InstallAllHooks() succeeds, 0 otherwise (see CallHookStartup)
HookStartup(s, e) == InstallAllHooks(s, e)

(***************************************************************************)
(* What the system may answer during one call: whether each region can be  *)
(* made writable, and what VirtualAlloc returns.  An answer to a question  *)
(* the call never asks is fixed (FALSE, NULL), so that each run of a       *)
(* handler is listed once.                                                 *)
(***************************************************************************)
Answers(s) ==
    [ protectA : BOOLEAN, alloc : AllocAnswers(s), protectB : BOOLEAN ]

HookStartupAnswers(s) ==
    { e \in Answers(s) :
        /\ ~e.protectA => e.alloc = NULL
        /\ e.alloc = NULL => ~e.protectB }

DllMainAnswers(s, reason) ==
    { e \in Answers(s) :
        /\ e.alloc = NULL
        /\ reason # DLL_PROCESS_DETACH => (~e.protectA /\ ~e.protectB) }

(***************************************************************************)
(* Initial state: the DLL has just been loaded into the unpatched host.    *)
(***************************************************************************)
NoCall == [ fn |-> "none", reason |-> 0, ret |-> 0 ]

\* no thread is being followed
NoThreads == [ pc |-> "none", oldProtect |-> 0, host |-> "none",
               target |-> NULL, outcome |-> "none" ]

NoRel == [ A |-> NULL, T |-> NULL, H |-> NULL,
           jumpToHook |-> Zeros(5), trampolineJump |-> Zeros(5), done |-> FALSE ]

Init ==
    /\ \E img \in HostImages : origA = img.A /\ origB = img.B
    /\ hookFn \in HookFnChoices
    /\ memA = origA
    /\ memB = origB
    /\ \E p \in CodeProtections : prot = [r \in {"A", "B"} |-> p]
    /\ heap = << >>
    /\ g_mutexOriginalBytes = Zeros(MutexWindow)
    /\ g_fileOriginalBytes = Zeros(FileWindow)
    /\ g_hooksInstalled = FALSE
    /\ g_fileHookTrampoline = NULL
    /\ g_originalOpenDataFile = NULL
    /\ calls = 0
    /\ lastCall = NoCall
    /\ log = << >>
    /\ pre = Cur
    /\ prev = [ call |-> NoCall, g_hooksInstalled |-> FALSE ]
    /\ rel = NoRel
    /\ thr = NoThreads

(***************************************************************************)
(* Actions: one call by the host.                                          *)
(***************************************************************************)
Return(s, fn, reason, r) ==
    /\ memA' = s.memA
    /\ memB' = s.memB
    /\ prot' = s.prot
    /\ heap' = s.heap
    /\ g_mutexOriginalBytes' = s.g_mutexOriginalBytes
    /\ g_fileOriginalBytes' = s.g_fileOriginalBytes
    /\ g_hooksInstalled' = s.g_hooksInstalled
    /\ g_fileHookTrampoline' = s.g_fileHookTrampoline
    /\ g_originalOpenDataFile' = s.g_originalOpenDataFile
    /\ log' = s.log
    /\ lastCall' = [ fn |-> fn, reason |-> reason, ret |-> r ]
    /\ pre' = Cur
    /\ prev' = [ call |-> lastCall, g_hooksInstalled |-> pre.g_hooksInstalled ]
    /\ calls' = calls + 1
    /\ UNCHANGED << origA, origB, hookFn, rel, thr >>

CallHookStartup ==
    /\ calls < MaxCalls
    /\ \E e \in HookStartupAnswers(Cur) :
          LET s == HookStartup(Cur, e)
          IN  Return(s, "HookStartup", 0, IF s.ret THEN 1 ELSE 0)

CallDllMain ==
    /\ calls < MaxCalls
    /\ \E reason \in {DLL_PROCESS_ATTACH, DLL_PROCESS_DETACH} :
       \E e \in DllMainAnswers(Cur, reason) :
          LET s == DllMain(Cur, reason, e)
          IN  Return(s, "DllMain", reason, 1)

Next == CallHookStartup \/ CallDllMain

Spec == Init /\ [][Next]_vars

(***************************************************************************)
(* Reading the log of a call.                                              *)
(***************************************************************************)
IsInstall(c) == c.fn = "HookStartup"

IsUnload(c) == c.fn = "DllMain" /\ c.reason = DLL_PROCESS_DETACH

\* position of the first VirtualProtect on region in l, 0 if there is none
AcquirePos(l, region) ==
    LET I == { i \in 1..Len(l) : l[i].op = "VirtualProtect" /\ l[i].region = region }
    IN  IF I = {} THEN 0 ELSE CHOOSE i \in I : \A j \in I : i <= j

AcquireOk(l, region) == AcquirePos(l, region) # 0 /\ l[AcquirePos(l, region)].ok

AcquireFailed(l, region) == AcquirePos(l, region) # 0 /\ ~l[AcquirePos(l, region)].ok

AllocFailed(l) == \E i \in 1..Len(l) : l[i].op = "VirtualAlloc" /\ ~l[i].ok

\* position of the write to region's window in l, 0 if there is none
WritePos(l, region) ==
    LET I == { i \in 1..Len(l) : l[i].op = "write" /\ l[i].region = region }
    IN  IF I = {} THEN 0 ELSE CHOOSE i \in I : \A j \in I : i <= j

Wrote(l, region) == WritePos(l, region) # 0

\* the five bytes InstallFileHook puts at target B
DivertingJump == JumpBytes(HookJumpOffset(CLBLOCKALLOCATOR_OPENDATAFILE_ADDR, hookFn))

(***************************************************************************)
(* C1: if HookStartup applied the first patch (target A) and the second    *)
(* patch (target B) then failed, an unload (RemoveAllHooks) made right     *)
(* afterwards restores A's window to the bytes it held before that         *)
(* HookStartup.                                                            *)
(***************************************************************************)
C1_UninstallRevertsPartialInstall ==
    [][ ( /\ IsInstall(lastCall) /\ lastCall.ret = 0
          /\ Wrote(log, "A")
          /\ calls' = calls + 1 /\ IsUnload(lastCall') )
        => memA' = pre.memA ]_vars

(***************************************************************************)
(* C2: byte-exact round trip.  When HookStartup succeeded from the         *)
(* Uninstalled state and the next call is an unload in which both target   *)
(* regions could be made writable, both windows hold again the bytes they  *)
(* held immediately before that HookStartup; also in later cycles.         *)
(***************************************************************************)
\* the last call was a successful HookStartup from the Uninstalled state
InstalledFromUninstalled ==
    IsInstall(lastCall) /\ lastCall.ret = 1 /\ ~pre.g_hooksInstalled

C2_ByteExactRoundTrip ==
    [][ ( /\ InstalledFromUninstalled
          /\ calls' = calls + 1 /\ IsUnload(lastCall')
          /\ AcquireOk(log', "A") /\ AcquireOk(log', "B") )
        => (memA' = pre.memA /\ memB' = pre.memB) ]_vars

\* the last two calls were such an install and an unload that could write
FullCycle ==
    /\ IsInstall(prev.call) /\ prev.call.ret = 1
    /\ ~prev.g_hooksInstalled
    /\ IsUnload(lastCall)
    /\ AcquireOk(log, "A") /\ AcquireOk(log, "B")

\* a second complete install/uninstall cycle has restored both windows
C2_Witness ==
    /\ FullCycle
    /\ calls = 4
    /\ pre.memA # memA /\ pre.memB # memB
    /\ memA = origA /\ memB = origB

(***************************************************************************)
(* C3: the snapshots are captured once and never overwritten: whenever a   *)
(* target window differs from its never-patched content, the snapshot      *)
(* held for that target is that never-patched content.                     *)
(***************************************************************************)
C3_SnapshotImmutable ==
    /\ memA # origA => g_mutexOriginalBytes = origA
    /\ memB # origB => g_fileOriginalBytes = origB

(***************************************************************************)
(* C4: if a patch fails, HookStartup returns 0 and that call does not set  *)
(* g_hooksInstalled; when it is the second patch that failed, the first    *)
(* patch's bytes stay in target A; HookStartup returns nonzero only when   *)
(* both patches were written and the flag is set.                          *)
(***************************************************************************)
PatchFailed(l) ==
    AcquireFailed(l, "A") \/ AllocFailed(l) \/ AcquireFailed(l, "B")

SecondPatchFailed(l) ==
    Wrote(l, "A") /\ (AllocFailed(l) \/ AcquireFailed(l, "B"))

C4_AllOrNothingInstall ==
    IsInstall(lastCall) =>
        /\ PatchFailed(log) =>
              (lastCall.ret = 0 /\ g_hooksInstalled = pre.g_hooksInstalled)
        /\ SecondPatchFailed(log) => Prefix(memA, 3) = patchBytes
        /\ lastCall.ret # 0 =>
              (Wrote(log, "A") /\ Wrote(log, "B") /\ g_hooksInstalled)

\* the second patch failed on a fresh registry: A is patched, flag is clear
C4_Witness ==
    /\ IsInstall(lastCall) /\ lastCall.ret = 0
    /\ SecondPatchFailed(log)
    /\ pre.memA = origA /\ memA # origA
    /\ ~g_hooksInstalled

(***************************************************************************)
(* C5: RemoveAllHooks (reached through DllMain on unload) is a no-op when  *)
(* g_hooksInstalled is clear: it makes no system call, writes no byte,     *)
(* frees nothing and leaves every global as it was.                        *)
(***************************************************************************)
C5_UninstallNoOpWhenNotInstalled ==
    (IsUnload(lastCall) /\ ~pre.g_hooksInstalled) =>
        /\ log = << >>
        /\ memA = pre.memA /\ memB = pre.memB
        /\ prot = pre.prot
        /\ heap = pre.heap
        /\ g_fileHookTrampoline = pre.g_fileHookTrampoline
        /\ g_originalOpenDataFile = pre.g_originalOpenDataFile
        /\ g_mutexOriginalBytes = pre.g_mutexOriginalBytes
        /\ g_fileOriginalBytes = pre.g_fileOriginalBytes
        /\ g_hooksInstalled = pre.g_hooksInstalled

\* a second consecutive unload, the first of which did uninstall
C5_Witness ==
    /\ IsUnload(lastCall) /\ ~pre.g_hooksInstalled
    /\ IsUnload(prev.call) /\ prev.g_hooksInstalled

(***************************************************************************)
(* C6: RemoveAllHooks frees every trampoline: after an unload from the     *)
(* Installed state no block allocated by InstallFileHook is left, whatever *)
(* HookStartup calls came before; at any time at most one block is         *)
(* allocated, the one recorded in g_fileHookTrampoline.                    *)
(***************************************************************************)
C6_UninstallFreesAllTrampolines ==
    /\ (IsUnload(lastCall) /\ pre.g_hooksInstalled) => DOMAIN heap = {}
    /\ DOMAIN heap \subseteq {g_fileHookTrampoline}

(***************************************************************************)
(* C7, as claimed: HookStartup writes target A before target B, and        *)
(* RemoveAllHooks restores in the reverse order, target B before target A. *)
(***************************************************************************)
C7_UninstallInReverseOrder ==
    (Wrote(log, "A") /\ Wrote(log, "B")) =>
        /\ IsInstall(lastCall) => WritePos(log, "A") < WritePos(log, "B")
        /\ IsUnload(lastCall) => WritePos(log, "B") < WritePos(log, "A")

(***************************************************************************)
(* C7, amended: HookStartup writes target A before target B, and           *)
(* RemoveAllHooks restores in that same order, target A before target B.   *)
(***************************************************************************)
C7_UninstallInInstallOrder ==
    (Wrote(log, "A") /\ Wrote(log, "B")) =>
        /\ IsInstall(lastCall) => WritePos(log, "A") < WritePos(log, "B")
        /\ IsUnload(lastCall) => WritePos(log, "A") < WritePos(log, "B")

\* an unload that restored both windows
C7_Witness ==
    /\ IsUnload(lastCall)
    /\ Wrote(log, "A") /\ Wrote(log, "B")
    /\ memA # pre.memA /\ memB # pre.memB

(***************************************************************************)
(* C9: whenever InstallFileHook fills a trampoline, the first 5 bytes of   *)
(* target B are still the original ones, so the stub g_originalOpenDataFile*)
(* points to always starts with B's original first 5 bytes, followed by a  *)
(* jump to B + 5.                                                          *)
(***************************************************************************)
Filled(l) == \E i \in 1..Len(l) : l[i].op = "fill"

IsTrampolineOf(stub, at, prefix) ==
    /\ Prefix(stub, 5) = prefix
    /\ stub[6] = JMP
    /\ JumpTarget(Add32(at, Five), SubSeq(stub, 6, 10))
          = Add32(CLBLOCKALLOCATOR_OPENDATAFILE_ADDR, Five)

C9_TrampolineHoldsOriginalPrefix ==
    /\ Filled(log) => Prefix(pre.memB, 5) = Prefix(origB, 5)
    /\ g_originalOpenDataFile \in DOMAIN heap =>
          IsTrampolineOf(heap[g_originalOpenDataFile], g_originalOpenDataFile,
                         Prefix(origB, 5))

(***************************************************************************)
(* C10: whenever the first 5 bytes of target B are the jump to             *)
(* OpenDataFile_Hook, g_originalOpenDataFile points to a block that is     *)
(* allocated.                                                              *)
(***************************************************************************)
C10_HookCallsLiveTrampoline ==
    Prefix(memB, 5) = DivertingJump => g_originalOpenDataFile \in DOMAIN heap

(***************************************************************************)
(* C11: memory-protection bracket.  In HookStartup and in RemoveAllHooks,  *)
(* for each target region: every write to the window comes after a         *)
(* successful VirtualProtect(PAGE_EXECUTE_READWRITE) on the region and     *)
(* before a second VirtualProtect on it that passes the protection the     *)
(* region had when it was acquired; a successful acquisition is always     *)
(* followed by that second call; after a failed acquisition the window is  *)
(* not written.                                                            *)
(***************************************************************************)
ProtectCalls(l, region) ==
    { i \in 1..Len(l) : l[i].op = "VirtualProtect" /\ l[i].region = region }

Writes(l, region) ==
    { i \in 1..Len(l) : l[i].op = "write" /\ l[i].region = region }

\* old: the region's protection at entry; before, after: the window's bytes
Bracketed(l, region, old, before, after) ==
    LET P == ProtectCalls(l, region)
        W == Writes(l, region)
        first == AcquirePos(l, region)
    IN  IF ~AcquireOk(l, region)
        THEN /\ Cardinality(P) <= 1
             /\ W = {}
             /\ after = before
        ELSE /\ Cardinality(P) = 2
             /\ l[first].prot = PAGE_EXECUTE_READWRITE
             /\ \A i \in P \ {first} : l[i].prot = old
             /\ \A w \in W : first < w /\ \A i \in P \ {first} : w < i

C11_ProtectionBracket ==
    (IsInstall(lastCall) \/ IsUnload(lastCall)) =>
        /\ Bracketed(log, "A", pre.prot["A"], pre.memA, memA)
        /\ Bracketed(log, "B", pre.prot["B"], pre.memB, memB)

\* an unload that restored A inside its bracket and could not acquire B
C11_Witness ==
    /\ IsUnload(lastCall)
    /\ Cardinality(ProtectCalls(log, "A")) = 2 /\ Writes(log, "A") # {}
    /\ AcquireFailed(log, "B") /\ memB = pre.memB /\ memB # origB
    /\ pre.prot["A"] = PAGE_EXECUTE_READWRITE

(***************************************************************************)
(* C12: a patch whose installation fails leaves no trace of the attempt.   *)
(* If InstallMutexHook cannot acquire the region, target A's bytes and     *)
(* g_mutexOriginalBytes are unchanged.  If InstallFileHook cannot allocate *)
(* or cannot acquire the region, target B's bytes and g_fileOriginalBytes  *)
(* are unchanged, the block that attempt allocated (if any) is freed       *)
(* again, and g_fileHookTrampoline is NULL.                                *)
(***************************************************************************)
\* every block a VirtualAlloc of l returned is released by a later VirtualFree
AllocsFreed(l) ==
    \A i \in 1..Len(l) :
        (l[i].op = "VirtualAlloc" /\ l[i].ok) =>
            \E j \in (i + 1)..Len(l) : l[j].op = "VirtualFree" /\ l[j].addr = l[i].addr

C12_FailedPatchLeavesNoTrace ==
    IsInstall(lastCall) =>
        /\ AcquireFailed(log, "A") =>
              /\ memA = pre.memA
              /\ g_mutexOriginalBytes = pre.g_mutexOriginalBytes
        /\ (AllocFailed(log) \/ AcquireFailed(log, "B")) =>
              /\ memB = pre.memB
              /\ g_fileOriginalBytes = pre.g_fileOriginalBytes
              /\ AllocsFreed(log)
              /\ heap = pre.heap
              /\ g_fileHookTrampoline = NULL

\* the block was allocated, the region could not be acquired, the block is gone
C12_Witness ==
    /\ IsInstall(lastCall) /\ lastCall.ret = 0
    /\ AcquireFailed(log, "B")
    /\ \E i \in 1..Len(log) : log[i].op = "VirtualAlloc" /\ log[i].ok
    /\ \E i \in 1..Len(log) : log[i].op = "VirtualFree"
    /\ heap = pre.heap /\ memB = pre.memB

(***************************************************************************)
(* C13: when the first patch fails, HookStartup stops there: the second    *)
(* patch is not attempted.  Target B's bytes, g_fileOriginalBytes,         *)
(* g_fileHookTrampoline, g_originalOpenDataFile and g_hooksInstalled are   *)
(* as before the call and no memory is allocated.                          *)
(***************************************************************************)
C13_FirstFailureAborts ==
    (IsInstall(lastCall) /\ AcquireFailed(log, "A")) =>
        /\ lastCall.ret = 0
        /\ Len(log) = 1
        /\ memB = pre.memB
        /\ g_fileOriginalBytes = pre.g_fileOriginalBytes
        /\ g_fileHookTrampoline = pre.g_fileHookTrampoline
        /\ g_originalOpenDataFile = pre.g_originalOpenDataFile
        /\ g_hooksInstalled = pre.g_hooksInstalled
        /\ heap = pre.heap
        /\ prot = pre.prot

\* the first patch fails while an earlier install is in place
C13_Witness ==
    /\ IsInstall(lastCall) /\ AcquireFailed(log, "A")
    /\ pre.g_hooksInstalled
    /\ pre.g_fileHookTrampoline # NULL
    /\ Prefix(memB, 5) = DivertingJump

(***************************************************************************)
(* C14: frame of a successful install from the Uninstalled state, and its  *)
(* reversal.                                                               *)
(***************************************************************************)
\* bytes from C offset n on are the same in a and b
SameFrom(a, b, n) == \A i \in (n + 1)..Len(a) : a[i] = b[i]

\* the install changed only the first 3 bytes of A (to 31 C0 C3) and the first
\* 5 bytes of B (to E9 and the 4-byte offset)
InstallFrame ==
    InstalledFromUninstalled =>
        /\ Prefix(memA, 3) = patchBytes
        /\ SameFrom(memA, pre.memA, 3)
        /\ memB[1] = JMP
        /\ Prefix(memB, 5) = DivertingJump
        /\ SameFrom(memB, pre.memB, 5)

\* the step is the unload that follows such an install
UnloadAfterInstall ==
    InstalledFromUninstalled /\ calls' = calls + 1 /\ IsUnload(lastCall')

OffsetAddrs ==
    { DW(0, 0), DW(0, 3), DW(0, 65531), DW(1, 0), DW(103, 22816),
      DW(32767, 65535), DW(32768, 0), DW(65535, 65520), DW(65535, 65535) }

InitOffset ==
    /\ \E img \in HostImages : origA = img.A /\ origB = img.B
    /\ hookFn = NULL
    /\ memA = origA
    /\ memB = origB
    /\ prot = [r \in {"A", "B"} |-> PAGE_EXECUTE_READ]
    /\ heap = << >>
    /\ g_mutexOriginalBytes = Zeros(MutexWindow)
    /\ g_fileOriginalBytes = Zeros(FileWindow)
    /\ g_hooksInstalled = FALSE
    /\ g_fileHookTrampoline = NULL
    /\ g_originalOpenDataFile = NULL
    /\ calls = 0
    /\ lastCall = NoCall
    /\ log = << >>
    /\ pre = Cur
    /\ prev = [ call |-> NoCall, g_hooksInstalled |-> FALSE ]
    /\ \E a \in OffsetAddrs, tr \in OffsetAddrs, h \in OffsetAddrs :
          rel = [ NoRel EXCEPT !.A = a, !.T = tr, !.H = h ]
    /\ thr = NoThreads

ComputeOffsets ==
    /\ ~rel.done
    /\ rel' = [ rel EXCEPT
                  !.jumpToHook = JumpBytes(HookJumpOffset(rel.A, rel.H)),
                  !.trampolineJump = JumpBytes(TrampolineJumpOffset(rel.A, rel.T)),
                  !.done = TRUE ]
    /\ UNCHANGED << memA, memB, prot, heap, g_mutexOriginalBytes,
                    g_fileOriginalBytes, g_hooksInstalled, g_fileHookTrampoline,
                    g_originalOpenDataFile, origA, origB, hookFn, calls,
                    lastCall, log, pre, prev, thr >>

NextOffset == ComputeOffsets

SpecOffset == InitOffset /\ [][NextOffset]_vars

\* a < b as unsigned 32-bit numbers
Below(a, b) == a[1] < b[1] \/ (a[1] = b[1] /\ a[2] < b[2])

(***************************************************************************)
(* C8: offset correctness modulo 2^32.  The JMP placed at A lands on H:    *)
(* A + 5 + offset = H; the JMP placed at T + 5 lands on A + 5:             *)
(* T + 5 + 5 + offset = A + 5; also when the destination lies before the   *)
(* jump.                                                                   *)
(***************************************************************************)
C8_OffsetCorrectness ==
    rel.done =>
        /\ rel.jumpToHook[1] = JMP
        /\ JumpTarget(rel.A, rel.jumpToHook) = rel.H
        /\ rel.trampolineJump[1] = JMP
        /\ JumpTarget(Add32(rel.T, Five), rel.trampolineJump) = Add32(rel.A, Five)

\* both destinations lie before their jumps: the offsets are negative
C8_Witness ==
    /\ rel.done
    /\ Below(rel.H, rel.A) /\ Below(rel.A, rel.T)
    /\ rel.A # NULL
    /\ rel.jumpToHook[5] >= 128 /\ rel.trampolineJump[5] >= 128

(***************************************************************************)
(* The first HookStartup followed statement by statement, with a host      *)
(* thread that calls target B at any moment.  InstallMutexHook is one      *)
(* step; each statement of InstallFileHook is one step, executed in        *)
(* program order; the memcpy of the 5-byte jump to target B is one step.   *)
(***************************************************************************)
\* the jump is written to target B before g_originalOpenDataFile is set
InstallFileHookOrder_JumpBeforePointer ==
    << "alloc", "protect", "snapshot", "copyPrefix", "jmpOpcode", "jmpOffset",
       "writeJump", "setOriginal", "restore" >>

\* the statements of InstallFileHook in program order:
\* lines 88, 95, 103, 106, 110, 111-112, 115, 118-123, 126
InstallFileHookOrder ==
    << "alloc", "protect", "snapshot", "copyPrefix", "jmpOpcode", "jmpOffset",
       "setOriginal", "writeJump", "restore" >>

\* the statement after label; after the last one InstallAllHooks sets the flag
After(label) ==
    LET i == CHOOSE k \in 1..Len(InstallFileHookOrder) : InstallFileHookOrder[k] = label
    IN  IF i < Len(InstallFileHookOrder) THEN InstallFileHookOrder[i + 1] ELSE "setFlag"

\* the state the threads see; the log runs on through the whole call
CurL == [Cur EXCEPT !.log = log]

InitConc ==
    /\ \E img \in HostImages : origA = img.A /\ origB = img.B
    /\ hookFn \in HookFnChoices
    /\ memA = origA
    /\ memB = origB
    /\ \E p \in CodeProtections : prot = [r \in {"A", "B"} |-> p]
    /\ heap = << >>
    /\ g_mutexOriginalBytes = Zeros(MutexWindow)
    /\ g_fileOriginalBytes = Zeros(FileWindow)
    /\ g_hooksInstalled = FALSE
    /\ g_fileHookTrampoline = NULL
    /\ g_originalOpenDataFile = NULL
    /\ calls = 0
    /\ lastCall = NoCall
    /\ log = << >>
    /\ pre = Cur
    /\ prev = [ call |-> NoCall, g_hooksInstalled |-> FALSE ]
    /\ rel = NoRel
    /\ thr = [ NoThreads EXCEPT !.pc = "mutex", !.host = "idle" ]

\* one step of a thread: the shared state becomes s, the threads become th
Commit(s, th) ==
    /\ memA' = s.memA
    /\ memB' = s.memB
    /\ prot' = s.prot
    /\ heap' = s.heap
    /\ g_mutexOriginalBytes' = s.g_mutexOriginalBytes
    /\ g_fileOriginalBytes' = s.g_fileOriginalBytes
    /\ g_hooksInstalled' = s.g_hooksInstalled
    /\ g_fileHookTrampoline' = s.g_fileHookTrampoline
    /\ g_originalOpenDataFile' = s.g_originalOpenDataFile
    /\ log' = s.log
    /\ thr' = th
    /\ UNCHANGED << origA, origB, hookFn, calls, lastCall, pre, prev, rel >>

\* line 136: InstallMutexHook()
ConcMutexHook ==
    /\ thr.pc = "mutex"
    /\ \E ok \in BOOLEAN :
          LET s == InstallMutexHook(CurL, [ protectA |-> ok, alloc |-> NULL,
                                            protectB |-> FALSE ])
          IN  Commit(s, [thr EXCEPT !.pc = IF s.ret THEN InstallFileHookOrder[1]
                                           ELSE "done"])

\* lines 88-92: g_fileHookTrampoline = VirtualAlloc(...)
ConcAlloc ==
    /\ thr.pc = "alloc"
    /\ \E a \in AllocAnswers(CurL) :
          Commit([VirtualAlloc(CurL, a) EXCEPT !.g_fileHookTrampoline = a],
                 [thr EXCEPT !.pc = IF a = NULL THEN "done" ELSE After("alloc")])

\* line 95: VirtualProtect(hookAddr, 32, PAGE_EXECUTE_READWRITE, &oldProtect)
ConcProtect ==
    /\ thr.pc = "protect"
    /\ \E ok \in BOOLEAN :
          Commit(VirtualProtect(CurL, "B", PAGE_EXECUTE_READWRITE, ok),
                 [thr EXCEPT !.pc = IF ok THEN After("protect") ELSE "free",
                             !.oldProtect = prot["B"]])

\* lines 97-99: VirtualFree(g_fileHookTrampoline); g_fileHookTrampoline = NULL
ConcFree ==
    /\ thr.pc = "free"
    /\ Commit([VirtualFree(CurL, g_fileHookTrampoline)
                  EXCEPT !.g_fileHookTrampoline = NULL],
              [thr EXCEPT !.pc = "done"])

\* line 103: memcpy(g_fileOriginalBytes, hookAddr, 32)
ConcSnapshot ==
    /\ thr.pc = "snapshot"
    /\ Commit(Logged([CurL EXCEPT !.g_fileOriginalBytes = memB],
                     Ev("snapshot", "B", NULL, 0, TRUE)),
              [thr EXCEPT !.pc = After("snapshot")])

\* line 106: memcpy(g_fileHookTrampoline, hookAddr, 5)
ConcCopyPrefix ==
    /\ thr.pc = "copyPrefix"
    /\ Commit([CurL EXCEPT !.heap[g_fileHookTrampoline] = Memcpy(@, 0, memB, 5)],
              [thr EXCEPT !.pc = After("copyPrefix")])

\* lines 109-110: trampolineJump[0] = 0xE9
ConcJmpOpcode ==
    /\ thr.pc = "jmpOpcode"
    /\ Commit([CurL EXCEPT !.heap[g_fileHookTrampoline] = Memcpy(@, 5, <<JMP>>, 1)],
              [thr EXCEPT !.pc = After("jmpOpcode")])

\* lines 111-112: memcpy(trampolineJump + 1, &jumpOffset, 4)
ConcJmpOffset ==
    /\ thr.pc = "jmpOffset"
    /\ Commit([CurL EXCEPT !.heap[g_fileHookTrampoline] =
                  Memcpy(@, 6, DwordBytes(TrampolineJumpOffset(
                      CLBLOCKALLOCATOR_OPENDATAFILE_ADDR, g_fileHookTrampoline)), 4)],
              [thr EXCEPT !.pc = After("jmpOffset")])

\* line 115: g_originalOpenDataFile = g_fileHookTrampoline
ConcSetOriginal ==
    /\ thr.pc = "setOriginal"
    /\ Commit([CurL EXCEPT !.g_originalOpenDataFile = g_fileHookTrampoline],
              [thr EXCEPT !.pc = After("setOriginal")])

\* lines 118-123: memcpy(hookAddr, jumpToHook, 5)
ConcWriteJump ==
    /\ thr.pc = "writeJump"
    /\ Commit(WriteTarget(CurL, "B",
                  JumpBytes(HookJumpOffset(CLBLOCKALLOCATOR_OPENDATAFILE_ADDR, hookFn)), 5),
              [thr EXCEPT !.pc = After("writeJump")])

\* line 126: VirtualProtect(hookAddr, 32, oldProtect, &oldProtect)
ConcRestore ==
    /\ thr.pc = "restore"
    /\ Commit(VirtualProtect(CurL, "B", thr.oldProtect, TRUE),
              [thr EXCEPT !.pc = After("restore")])

\* line 146: g_hooksInstalled = TRUE
ConcSetFlag ==
    /\ thr.pc = "setFlag"
    /\ Commit([CurL EXCEPT !.g_hooksInstalled = TRUE], [thr EXCEPT !.pc = "done"])

\* the host thread calls target B: it runs the original code, or, when the
\* diverting jump is in place, enters OpenDataFile_Hook
HostCall ==
    /\ thr.host = "idle"
    /\ Commit(CurL, IF Prefix(memB, 5) = DivertingJump
                    THEN [thr EXCEPT !.host = "hook"]
                    ELSE [thr EXCEPT !.outcome = "original"])

\* lines 32-40: if (g_originalOpenDataFile) call it, else return 0
HostHook ==
    /\ thr.host = "hook"
    /\ Commit(CurL, IF g_originalOpenDataFile # NULL
                    THEN [thr EXCEPT !.host = "stub", !.target = g_originalOpenDataFile]
                    ELSE [thr EXCEPT !.host = "idle", !.outcome = "return0"])

\* the host thread runs the code at the address it called
HostStub ==
    /\ thr.host = "stub"
    /\ Commit(CurL,
              [thr EXCEPT !.host = "idle",
                          !.outcome =
                              IF /\ thr.target \in DOMAIN heap
                                 /\ IsTrampolineOf(heap[thr.target], thr.target,
                                                   Prefix(origB, 5))
                              THEN "forwarded" ELSE "partStub"])

NextConc ==
    \/ ConcMutexHook \/ ConcAlloc \/ ConcProtect \/ ConcFree \/ ConcSnapshot
    \/ ConcCopyPrefix \/ ConcJmpOpcode \/ ConcJmpOffset \/ ConcSetOriginal
    \/ ConcWriteJump \/ ConcRestore \/ ConcSetFlag
    \/ HostCall \/ HostHook \/ HostStub

SpecConc == InitConc /\ [][NextConc]_vars

(***************************************************************************)
(* C15: whenever the host thread is in OpenDataFile_Hook, having entered   *)
(* it through the diverting jump during the first HookStartup,             *)
(* g_originalOpenDataFile is non-null and points to a trampoline that      *)
(* holds the 5-byte prefix of B and the jump back to B + 5; the hook       *)
(* never returns 0 and never runs a partly filled stub.                    *)
(***************************************************************************)
C15_HookSeesCompleteTrampoline ==
    /\ thr.host = "hook" =>
          /\ g_originalOpenDataFile # NULL
          /\ g_originalOpenDataFile \in DOMAIN heap
          /\ IsTrampolineOf(heap[g_originalOpenDataFile], g_originalOpenDataFile,
                            Prefix(origB, 5))
    /\ thr.outcome \notin { "return0", "partStub" }

\* the host went through the hook and the stub before InstallFileHook returned
C15_Witness ==
    /\ thr.outcome = "forwarded"
    /\ thr.pc = "restore"
    /\ Prefix(memB, 5) = DivertingJump

====
